---- MODULE Spec2Model ----
(***************************************************************************)
(* Model of the invoker orchestrator (type Tasks): New, Add, Run / Race /  *)
(* Repeat (all through Tasks.do), Tasks.run and Tasks.report, together     *)
(* with the derived context and the buffered done channel.                 *)
(***************************************************************************)
EXTENDS Integers, Sequences, FiniteSets, TLC

\* ---------------------------------------------------------------- bounds
\* Number of caller-submitted tasks over the orchestrator's lifetime.
MaxTasks == 2
\* ------------------------------------------------------------- constants
\* make(chan error, 1)
DoneCap == 1

modeInit == "modeInit"
modeRun == "modeRun"
modeRace == "modeRace"
modeRepeat == "modeRepeat"
modeDone == "modeDone"
Modes == {modeInit, modeRun, modeRace, modeRepeat, modeDone}
StartModes == {modeRun, modeRace, modeRepeat}

nil == "nil"
ErrRunning == "ErrRunning"
ErrFinished == "ErrFinished"
ErrNoTasks == "ErrNoTasks"
Canceled == "Canceled"
ErrPanic == "ErrPanic"

\* The synthetic task appended by Repeat is task 0; user tasks are 1..MaxTasks.
Wait == 0
UserIds == 1..MaxTasks
TaskIds == 0..MaxTasks
Free == -1

\* What a task does, whenever it gets round to it: an "ok" task returns nil,
\* a "fail" task returns an error of its own or panics, a "wait" task blocks
\* on <-ctx.Done() and returns ctx.Err().
Kinds == {"ok", "fail", "wait"}

VARIABLES
    mutex,       \* ts.mutex: Free, or the id of the task holding it across steps
    mode,        \* ts.mode
    pending,     \* ts.pending: sequence of task ids
    running,     \* ts.running
    first,       \* ts.first
    err,         \* ts.err
    cancelled,   \* ts.cancel has been called on the derived context
    parentDone,  \* the context given to the call that passed the mode check is done
    done,        \* ts.done: the buffer of the channel
    task,        \* per task id: kind, position, and how it was launched
    pc,          \* position in do of the call that passed the mode check
    ret,         \* the value that call returned, "none" before it returns
    rejected,    \* the value returned by the latest call the mode check rejected
    \* history variables (not program state)
    admits,      \* number of calls that passed the mode check
    startMode,   \* the mode asked for by the call that launched tasks
    syncTask,    \* tasks[0] of that call, run on the caller's goroutine
    firstOut,    \* the first report that was not discarded: [how, out], or NoReport
    firstFail,   \* the first such report with out # nil, or NoReport
    doneWrites,  \* number of executions of ts.done <- ts.err
    invoked      \* per task id: number of times Tasks.run was started on it

vars == <<mutex, mode, pending, running, first, err, cancelled, parentDone,
          done, task, pc, ret, rejected, admits, startMode, syncTask,
          firstOut, firstFail, doneWrites, invoked>>

prog == <<mutex, mode, pending, running, first, err, cancelled, done>>
hist == <<admits, startMode, syncTask, firstOut, firstFail, doneWrites, invoked>>

\* ------------------------------------------------------------- helpers

\* ctx, cancel := context.WithCancel(ctx): done when the parent is done or
\* cancel was called.
CtxDone == parentDone \/ cancelled

Used == {t \in UserIds : task[t].st # "unused"}

\* ids n+1 .. n+k as a sequence
FreshIds(k) == [i \in 1..k |-> Cardinality(Used) + i]

\* how: "no" (not launched), "start" (launched by the admitted call), "add"
\* (launched by Add before modeDone), "late" (launched by Add in modeDone).
NoReport == [how |-> "no", out |-> "none"]

\* via: "new" (given to New), "add" (given to Add), "no" (not given by the
\* caller: unused, or the synthetic task).
NoTask == [kind |-> "ok", st |-> "unused", how |-> "no", via |-> "no"]

\* What a task of the given kind can return at this moment.
Returns(kind) ==
    CASE kind = "wait" -> IF CtxDone THEN {Canceled} ELSE {}
      [] kind = "ok" -> {nil}
      [] kind = "fail" -> {"e1", "fault"}

\* var Panic bool = false: panics are caught.
Panic == FALSE

\* Mutant: the recover swallows the panic and leaves err nil.
RecoveredAsSuccess(raw) == IF raw = "fault" THEN nil ELSE raw

\* Tasks.run: unless Panic is set, the deferred recover turns a panic into
\* ErrPanic; err is what report is given.
Recovered(raw) == IF raw = "fault" /\ ~Panic THEN ErrPanic ELSE raw

\* Number of occurrences of t in the sequence s.
Count(t, s) == Cardinality({i \in 1..Len(s) : s[i] = t})

\* Mutant: Add launches at once whatever the mode.
AddNeverDefers(md) == FALSE

\* Tasks.Add: in modeInit the tasks are only appended to ts.pending.
AddDefers(md) == md = modeInit

\* Mutant: Add launches without counting the new tasks.
AddRunningForgets(run, n) == run

\* Tasks.Add: ts.running += len(tasks)
AddRunning(run, n) == run + n

\* Mutant: Repeat does not get the synthetic task.
StartTasksNoWait(m, pend) == pend

\* Mutant: every mode gets the synthetic task.
StartTasksAlwaysWait(m, pend) == Append(pend, Wait)

\* Tasks.do: tasks := ts.pending, plus Wait for Repeat.
StartTasks(m, pend) == IF m = modeRepeat THEN Append(pend, Wait) ELSE pend

\* Mutant: tasks[0] is started on a goroutine as well as on the caller's.
LaunchedFirstTwice(tasks) == IF Len(tasks) > 0 THEN tasks \o <<Head(tasks)>> ELSE <<>>

\* Tasks.do: the tasks Tasks.run is started on, tasks[1:] on goroutines of
\* their own and then tasks[0] on the caller's; none if there are no tasks.
Launched(tasks) == IF Len(tasks) > 0 THEN Tail(tasks) \o <<Head(tasks)>> ELSE <<>>

\* Mutant: do returns without cancelling the derived context.
DeferredCancelMissing == FALSE

\* Tasks.do: defer cancel(), run by every return after the mode check.
DeferredCancel == TRUE

\* Mutant: a start is refused only once the orchestrator has finished.
AdmissionIgnoresRunning(md) == IF md = modeDone THEN ErrFinished ELSE "ok"

\* Mutant: a finished orchestrator can be started again.
AdmissionReusable(md) == IF md \in {modeInit, modeDone} THEN "ok" ELSE ErrRunning

\* Tasks.do: the switch on ts.mode.
Admission(md) ==
    CASE md = modeInit -> "ok"
      [] md = modeDone -> ErrFinished
      [] OTHER -> ErrRunning

\* Mutant: no early return in modeDone.
DiscardsNothing(md) == FALSE

\* Tasks.report: case modeDone returns before anything else is touched.
Discards(md) == md = modeDone

\* Mutant: in Run and Repeat the latest error replaces the recorded one.
NextErrLastError(md, fst, cur, e) ==
    CASE md \in {modeRun, modeRepeat} -> IF e # nil THEN e ELSE cur
      [] md = modeRace -> IF fst THEN e ELSE cur
      [] OTHER -> cur

\* Mutant: Run and Repeat record like Race, on ts.first.
NextErrAsRace(md, fst, cur, e) ==
    CASE md \in {modeRun, modeRepeat, modeRace} -> IF fst THEN e ELSE cur
      [] OTHER -> cur

\* Mutant: Race records like Run, the first error rather than the first result.
NextErrRaceAsRun(md, fst, cur, e) ==
    CASE md \in {modeRun, modeRepeat, modeRace} -> IF cur = nil THEN e ELSE cur
      [] OTHER -> cur

\* Tasks.report: the value of ts.err after the switch.
NextErr(md, fst, cur, e) ==
    CASE md \in {modeRun, modeRepeat} -> IF cur = nil THEN e ELSE cur
      [] md = modeRace -> IF fst THEN e ELSE cur
      [] OTHER -> cur

\* Tasks.report: the value of ts.first after the switch.
NextFirst(md, fst) == IF md = modeRace THEN FALSE ELSE fst

\* Mutant: Race, like Run, cancels only on a failure.
CancelOnReportFailuresOnly(md, e) ==
    CASE md \in {modeRun, modeRepeat, modeRace} -> e # nil
      [] OTHER -> FALSE

\* Mutant: Run and Repeat, like Race, cancel on every report.
CancelOnReportAlways(md, e) == md \in {modeRun, modeRepeat, modeRace}

\* Mutant: only Race cancels on a report.
CancelOnReportRaceOnly(md, e) == md = modeRace

\* Tasks.report: whether the switch calls ts.cancel().
CancelOnReport(md, e) ==
    CASE md \in {modeRun, modeRepeat} -> e # nil
      [] md = modeRace -> TRUE
      [] OTHER -> FALSE

\* Mutant: the comparison is off by one the other way.
FinishesOneTooLate(md, run, er) ==
    /\ ~(run > -1)
    /\ (md # modeRepeat \/ er # nil)

\* Mutant: the comparison is off by one.
FinishesOffByOne(md, run, er) ==
    /\ ~(run > 1)
    /\ (md # modeRepeat \/ er # nil)

\* Mutant: Repeat discounts its synthetic task instead of asking for an error.
FinishesIgnoringWait(md, run, er) ==
    IF md = modeRepeat THEN ~(run > 1) ELSE ~(run > 0)

\* Tasks.report: whether the report goes on to write ts.done.
Finishes(md, run, er) ==
    /\ ~(run > 0)
    /\ (md # modeRepeat \/ er # nil)

\* ------------------------------------------------------------- Init

\* New(tasks...): pending holds the given tasks, everything else is zero.
Init ==
    /\ mutex = Free
    /\ mode = modeInit
    /\ \E k \in 0..MaxTasks : \E ks \in [1..k -> Kinds] :
          /\ pending = [i \in 1..k |-> i]
          /\ task = [t \in TaskIds |->
                       IF t \in 1..k
                       THEN [kind |-> ks[t], st |-> "pending", how |-> "no",
                             via |-> "new"]
                       ELSE NoTask]
    /\ running = 0
    /\ first = FALSE
    /\ err = nil
    /\ cancelled = FALSE
    /\ parentDone = FALSE
    /\ done = <<>>
    /\ pc = "idle"
    /\ ret = "none"
    /\ rejected = "none"
    /\ admits = 0
    /\ startMode = modeInit
    /\ syncTask = Wait
    /\ firstOut = NoReport
    /\ firstFail = NoReport
    /\ doneWrites = 0
    /\ invoked = [t \in TaskIds |-> 0]

\* ------------------------------------------------------------- actions

\* The caller cancels the context it passed (or will pass) to Run/Race/Repeat.
CancelParent ==
    /\ ~parentDone
    /\ parentDone' = TRUE
    /\ UNCHANGED <<prog, task, pc, ret, rejected, hist>>

\* Tasks.Add(tasks...), the new tasks having the kinds ks.
Add(ks) ==
    /\ mutex = Free
    /\ Len(ks) > 0
    /\ Cardinality(Used) + Len(ks) <= MaxTasks
    /\ LET ids == FreshIds(Len(ks))
           new == {ids[i] : i \in 1..Len(ks)}
           kindOf(t) == ks[t - Cardinality(Used)]
       IN IF AddDefers(mode)
          THEN /\ pending' = pending \o ids
               /\ task' = [t \in TaskIds |->
                             IF t \in new
                             THEN [kind |-> kindOf(t), st |-> "pending", how |-> "no",
                                   via |-> "add"]
                             ELSE task[t]]
               /\ UNCHANGED <<running, invoked>>
          ELSE /\ running' = AddRunning(running, Len(ks))
               /\ invoked' = [t \in TaskIds |->
                                IF t \in new THEN invoked[t] + 1 ELSE invoked[t]]
               /\ task' = [t \in TaskIds |->
                             IF t \in new
                             THEN [kind |-> kindOf(t), st |-> "running",
                                   how |-> IF mode = modeDone THEN "late" ELSE "add",
                                   via |-> "add"]
                             ELSE task[t]]
               /\ UNCHANGED pending
    /\ UNCHANGED <<mutex, mode, first, err, cancelled, parentDone, done, pc, ret,
                   rejected, admits, startMode, syncTask, firstOut, firstFail,
                   doneWrites>>

\* Run, Race, Repeat, by any goroutine: Tasks.do(ctx, m) from the mode check
\* to the launch of the tasks. A rejected call returns at once; m only
\* matters to a call that passes the check.
Call ==
    /\ mutex = Free
    /\ IF Admission(mode) # "ok"
       THEN /\ rejected' = Admission(mode)
            /\ UNCHANGED <<prog, task, pc, ret, hist>>
       ELSE \E m \in StartModes :
            LET tasks == StartTasks(m, pending)
                ids == {Launched(tasks)[i] : i \in 1..Len(Launched(tasks))}
            IN /\ pending' = <<>>
               /\ mode' = m
               /\ cancelled' = FALSE
               /\ done' = <<>>
               /\ first' = TRUE
               /\ running' = Len(tasks)
               /\ admits' = admits + 1
               /\ ret' = "none"
               /\ invoked' = [t \in TaskIds |->
                                invoked[t] + Count(t, Launched(tasks))]
               /\ IF Len(tasks) > 0
                  THEN /\ task' = [t \in TaskIds |->
                                     IF t \in ids
                                     THEN [kind |-> IF t = Wait THEN "wait" ELSE task[t].kind,
                                           st |-> "running", how |-> "start",
                                           via |-> task[t].via]
                                     ELSE task[t]]
                       /\ pc' = "wait"
                       /\ startMode' = m
                       /\ syncTask' = tasks[1]
                  ELSE /\ pc' = "notasks"
                       /\ UNCHANGED <<task, startMode, syncTask>>
               /\ UNCHANGED <<mutex, err, rejected, firstOut, firstFail, doneWrites>>
    /\ UNCHANGED parentDone

\* Tasks.do: return ErrNoTasks, running the deferred cancel.
NoTasksReturn ==
    /\ pc = "notasks"
    /\ cancelled' = (cancelled \/ DeferredCancel)
    /\ ret' = ErrNoTasks
    /\ pc' = "returned"
    /\ UNCHANGED <<mutex, mode, pending, running, first, err, parentDone, done,
                   task, rejected, hist>>

\* Tasks.run: task t returns (or panics and is recovered) and Tasks.report
\* runs under the lock, up to and including the send on ts.done.
Report(t, raw) ==
    /\ mutex = Free
    /\ task[t].st = "running"
    /\ raw \in Returns(task[t].kind)
    /\ ~(raw = "fault" /\ Panic)
    /\ LET e == Recovered(raw)
           run1 == running - 1
           err1 == NextErr(mode, first, err, e)
       IN /\ running' = run1
          /\ firstOut' = IF Discards(mode) \/ firstOut # NoReport THEN firstOut
                         ELSE [how |-> task[t].how, out |-> e]
          /\ firstFail' = IF Discards(mode) \/ firstFail # NoReport \/ e = nil
                          THEN firstFail
                          ELSE [how |-> task[t].how, out |-> e]
          /\ IF Discards(mode)
             THEN /\ task' = [task EXCEPT ![t].st = "reported"]
                  /\ UNCHANGED <<mutex, first, err, cancelled, done, doneWrites>>
             ELSE /\ err' = err1
                  /\ first' = NextFirst(mode, first)
                  /\ cancelled' = (cancelled \/ CancelOnReport(mode, e))
                  /\ IF Finishes(mode, run1, err1)
                     THEN /\ doneWrites' = doneWrites + 1
                          /\ mutex' = t
                          /\ IF Len(done) < DoneCap
                             THEN /\ done' = Append(done, err1)
                                  /\ task' = [task EXCEPT ![t].st = "sending"]
                             ELSE /\ task' = [task EXCEPT ![t].st = "blocked"]
                                  /\ UNCHANGED done
                     ELSE /\ task' = [task EXCEPT ![t].st = "reported"]
                          /\ UNCHANGED <<mutex, done, doneWrites>>
    /\ UNCHANGED <<mode, pending, parentDone, pc, ret, rejected, admits,
                   startMode, syncTask, invoked>>

\* Tasks.report after the send: ts.mode = modeDone, then the deferred Unlock.
ReportEnd(t) ==
    /\ task[t].st = "sending"
    /\ mutex = t
    /\ mode' = modeDone
    /\ mutex' = Free
    /\ task' = [task EXCEPT ![t].st = "reported"]
    /\ UNCHANGED <<pending, running, first, err, cancelled, parentDone, done, pc,
                   ret, rejected, hist>>

\* Tasks.do: tasks[0] has returned on the caller's goroutine; return <-ts.done,
\* running the deferred cancel.
Receive ==
    /\ pc = "wait"
    /\ task[syncTask].st = "reported"
    /\ Len(done) > 0
    /\ ret' = Head(done)
    /\ done' = Tail(done)
    /\ cancelled' = (cancelled \/ DeferredCancel)
    /\ pc' = "returned"
    /\ UNCHANGED <<mutex, mode, pending, running, first, err, parentDone, task,
                   rejected, hist>>

Next ==
    \/ CancelParent
    \/ \E n \in 1..MaxTasks : \E ks \in [1..n -> Kinds] : Add(ks)
    \/ Call
    \/ NoTasksReturn
    \/ \E t \in TaskIds, raw \in {nil, "e1", "fault", Canceled} : Report(t, raw)
    \/ \E t \in TaskIds : ReportEnd(t)
    \/ Receive

Spec == Init /\ [][Next]_vars

\* Every goroutine that can take a step eventually takes it: a task that can
\* return does return and reports, a report past its send finishes, and a
\* caller whose result is ready receives it and returns.
Fairness ==
    /\ \A t \in TaskIds :
          WF_vars(\E raw \in {nil, "e1", "fault", Canceled} : Report(t, raw))
    /\ \A t \in TaskIds : WF_vars(ReportEnd(t))
    /\ WF_vars(Receive)
    /\ WF_vars(NoTasksReturn)

FairSpec == Spec /\ Fairness

\* The value the launching call received from ts.done, "none" before that.
Delivered == IF pc = "returned" /\ startMode # modeInit THEN ret ELSE "none"

\* Task t is through with Tasks.report.
Reported(t) == task[t].st = "reported"

\* Tasks.report has taken task t's outcome (t may still be on its way out of
\* report, after the send on ts.done).
HasReported(t) == task[t].st \in {"reported", "sending"}

\* nil if every report so far was a success, else the first failure reported.
FirstFailureOrNil == IF firstFail = NoReport THEN nil ELSE firstFail.out

\* Some call was made in this step (a repeated rejection with the same
\* answer changes nothing and is a stuttering step).
CallStep == admits' # admits \/ rejected' # rejected

\* ------------------------------------------------------------- claims

\* C1: over every interleaving of reports, Adds and start attempts, ts.done
\* is sent to at most once, so the sender never blocks holding the lock.
C1_DoneWrittenAtMostOnce ==
    /\ doneWrites <= 1
    /\ \A t \in TaskIds : task[t].st # "blocked"

\* C1 witness: the send has happened and a task added afterwards has reported.
C1_Witness ==
    /\ doneWrites = 1
    /\ \E t \in UserIds : task[t].how = "late" /\ HasReported(t)

\* C2: the send on ts.done happens only with running = 0, and once a result
\* is in ts.done or has been returned, every task launched by the start or
\* by an Add before modeDone has reported.
C2_DeliveredOnlyAtZero ==
    /\ \A t \in TaskIds : task[t].st \in {"sending", "blocked"} => running = 0
    /\ (Len(done) > 0 \/ Delivered # "none") =>
          \A t \in TaskIds : task[t].how \in {"start", "add"} => HasReported(t)

\* C2 witness: a result was returned after an initial and an added task.
C2_Witness ==
    /\ Delivered # "none"
    /\ \E t \in TaskIds : task[t].how = "start"
    /\ \E t \in TaskIds : task[t].how = "add"

\* C3: the result Run returns is nil exactly when no report before
\* completion was a failure, and otherwise the first failure reported.
C3_RunReturnsFirstError ==
    (startMode = modeRun /\ Delivered # "none") => Delivered = FirstFailureOrNil

\* C3 witness: Run returned the failure of an added task that was reported
\* after a success.
C3_Witness ==
    /\ startMode = modeRun
    /\ Delivered # "none"
    /\ firstOut.out = nil
    /\ firstFail.how = "add"
    /\ Delivered = firstFail.out

\* C4 as stated: the result Run returns is the first outcome reported.
C4_RunReturnsFirstOutcome ==
    (startMode = modeRun /\ Delivered # "none") => Delivered = firstOut.out

\* C4 amended: in Run mode ts.err is the first failure reported so far (nil
\* while there is none), and that is what Run returns; a success reported
\* first is not the result once a failure follows it.
C4_RunRecordsFirstFailure ==
    /\ mode = modeRun => err = FirstFailureOrNil
    /\ (startMode = modeRun /\ Delivered # "none") =>
          /\ Delivered = FirstFailureOrNil
          /\ (firstOut.out = nil /\ firstFail # NoReport) => Delivered # firstOut.out

\* C4 witness: a success of an initial task was reported first, a failure of
\* an initial task later, and Run returned the failure.
C4_Witness ==
    /\ startMode = modeRun
    /\ Delivered \notin {"none", nil}
    /\ firstOut = [how |-> "start", out |-> nil]
    /\ firstFail.how = "start"

\* C5: in Race mode ts.err is the outcome of the first report, whatever
\* follows, and that is what Race returns.
C5_RaceReturnsFirstReport ==
    /\ (mode = modeRace /\ firstOut # NoReport) => err = firstOut.out
    /\ (startMode = modeRace /\ Delivered # "none") => Delivered = firstOut.out

\* C5 witness: Race returned the success of an added task that reported
\* first, a failure having been reported after it.
C5_Witness ==
    /\ startMode = modeRace
    /\ Delivered = nil
    /\ firstOut.how = "add"
    /\ firstFail # NoReport

\* The scenario of TestRunError: a Run whose tasks were all there at the
\* start, two or more of them, one of which returns a failure of its own
\* while every other one blocks until its context is done.
FailTasks == {t \in Used : task[t].kind = "fail"}

RunErrorScenario ==
    /\ startMode = modeRun
    /\ Cardinality(Used) >= 2
    /\ \A t \in Used : task[t].how = "start"
    /\ Cardinality(FailTasks) = 1
    /\ \A t \in Used \ FailTasks : task[t].kind = "wait"

OwnFailures == {"e1", ErrPanic}

\* C6 as stated: in that scenario the derived context is cancelled by the
\* step that reports the failure, every task has reported when Run returns,
\* and Run returns the failure, never the cancellation outcome of a sibling.
C6_RunReturnsTheFailure ==
    RunErrorScenario =>
        /\ \A f \in FailTasks : HasReported(f) => cancelled
        /\ Delivered # "none" =>
              /\ \A t \in Used : HasReported(t)
              /\ Delivered \in OwnFailures

\* C6 amended: in that scenario the derived context is cancelled by the step
\* that reports the failure, every task has reported when Run returns, and
\* Run returns the failure provided the parent context was not cancelled
\* before the failure was reported (no sibling can then have reported first).
C6_RunErrorCancelsAndReturns ==
    RunErrorScenario =>
        /\ \A f \in FailTasks :
              HasReported(f) =>
                  /\ cancelled
                  /\ ~parentDone => firstOut.out \in OwnFailures
        /\ Delivered # "none" =>
              /\ \A t \in Used : HasReported(t)
              /\ firstOut.out \in OwnFailures => Delivered = firstOut.out

\* C6 witness: the parent was never cancelled and Run returned the failure.
C6_Witness ==
    /\ RunErrorScenario
    /\ ~parentDone
    /\ Delivered \in OwnFailures

\* C7: a Repeat with no failure recorded has not finished, has written no
\* result and has not returned.
C7_RepeatBlockedWithoutFailure ==
    (startMode = modeRepeat /\ err = nil) =>
        /\ mode = modeRepeat
        /\ doneWrites = 0
        /\ pc = "wait"

\* C7 witness: every submitted task, one of them added while Repeat was
\* live, has reported success, and Repeat is still waiting.
C7_Witness ==
    /\ startMode = modeRepeat
    /\ err = nil
    /\ Used # {}
    /\ \A t \in Used : Reported(t)
    /\ \E t \in Used : task[t].how = "add"
    /\ firstOut.out = nil
    /\ pc = "wait"

\* C8: the result Repeat returns is a failure, the first one reported.
C8_RepeatReturnsFirstFailure ==
    (startMode = modeRepeat /\ Delivered # "none") =>
        /\ Delivered # nil
        /\ firstFail # NoReport
        /\ Delivered = firstFail.out

\* C8 witness: Repeat returned a task's own failure, reported after a
\* success and before the synthetic task's cancellation.
C8_Witness ==
    /\ startMode = modeRepeat
    /\ Delivered \in OwnFailures
    /\ firstOut.out = nil
    /\ Reported(Wait)

\* C9: at most one call ever passes the mode check, and a call made while
\* the mode is Run, Race or Repeat returns ErrRunning, launches nothing and
\* changes nothing.
C9_OnlyOneCallAdmitted ==
    [][/\ admits' <= 1
       /\ (mode \in StartModes /\ CallStep) =>
              /\ rejected' = ErrRunning
              /\ admits' = admits
              /\ UNCHANGED <<prog, task, pc, ret>>]_vars

\* C9 witness: one call is waiting on ts.done and another was refused with
\* ErrRunning.
C9_Witness ==
    /\ admits = 1
    /\ pc = "wait"
    /\ mode \in StartModes
    /\ rejected = ErrRunning

\* C10 as stated: once the call has returned the result it received, every
\* later call returns ErrFinished, and ts.mode is modeDone from the moment
\* the call returns.
C10_DoneWhenReturned ==
    [][/\ (Delivered # "none" /\ CallStep) => rejected' = ErrFinished
       /\ Delivered' # "none" => mode' = modeDone]_vars

\* C10 amended: once the call has returned the result it received, every
\* later call returns ErrFinished and changes nothing; at that moment
\* ts.mode is modeDone, or the reporting task that sent the result still
\* holds the lock and sets modeDone before it releases it.
C10_LaterCallsFinished ==
    [][/\ (Delivered # "none" /\ CallStep) =>
              /\ rejected' = ErrFinished
              /\ admits' = admits
              /\ UNCHANGED <<prog, task, pc, ret>>
       /\ Delivered' # "none" =>
              \/ mode' = modeDone
              \/ /\ mutex' \in TaskIds
                 /\ task'[mutex'].st = "sending"]_vars

\* C10 witness: the call returned the result it received and a later call
\* was refused with ErrFinished.
C10_Witness ==
    /\ Delivered # "none"
    /\ rejected = ErrFinished

\* Some call passed the mode check in this step.
StartStep == admits' # admits

\* Some Add ran in this step.
AddStep == \E t \in UserIds : task[t].st = "unused" /\ task'[t].st # "unused"

\* C11: a Run or Race that finds ts.pending empty launches nothing and its
\* next step returns ErrNoTasks without waiting for anything; a Repeat that
\* finds ts.pending empty launches the synthetic task and waits.
C11_EmptyStartFails ==
    [][/\ (StartStep /\ pending = <<>>) =>
              IF mode' \in {modeRun, modeRace}
              THEN /\ pc' = "notasks"
                   /\ running' = 0
                   /\ UNCHANGED <<task, invoked>>
              ELSE /\ pc' = "wait"
                   /\ running' = 1
                   /\ task'[Wait].st = "running"
                   /\ invoked'[Wait] = 1
       /\ (StartStep /\ pending # <<>>) => pc' = "wait"
       /\ pc = "notasks" =>
              /\ ENABLED NoTasksReturn
              /\ pc' # pc =>
                     /\ pc' = "returned"
                     /\ ret' = ErrNoTasks
                     /\ ret' # nil
                     /\ UNCHANGED <<task, invoked>>
       /\ ret' = ErrNoTasks => \A t \in TaskIds : task'[t].how # "start"]_vars

\* C11 witness: a Run or Race on an empty orchestrator returned ErrNoTasks.
C11_Witness ==
    /\ pc = "returned"
    /\ ret = ErrNoTasks
    /\ mode \in {modeRun, modeRace}
    /\ Used = {}

\* The tasks given to New or to an Add so far.
Given == {t \in UserIds : task[t].via # "no"}

\* C12: an Add in modeInit appends its tasks to ts.pending and touches
\* nothing else (nothing is launched, ts.mode and ts.running stay); the call
\* that then passes the mode check starts Tasks.run exactly once on every
\* task given to New or to an Add before it, and no task is ever started a
\* second time.
C12_AddBeforeStartOnlyQueues ==
    [][/\ (mode = modeInit /\ AddStep) =>
              /\ Len(pending') > Len(pending)
              /\ SubSeq(pending', 1, Len(pending)) = pending
              /\ \A t \in UserIds :
                     task'[t] # task[t] =>
                         /\ task[t].st = "unused"
                         /\ task'[t].st = "pending"
                         /\ Count(t, pending') = 1
              /\ UNCHANGED <<mutex, mode, running, first, err, cancelled, done,
                             invoked, pc, ret>>
       /\ StartStep =>
              /\ \A t \in Given : invoked[t] = 0 /\ task[t].st = "pending"
              /\ \A t \in Given : invoked'[t] = 1 /\ task'[t].st = "running"
              /\ running' = Cardinality(Given) + invoked'[Wait]
       /\ \A t \in TaskIds : invoked'[t] <= 1]_vars

\* C12 witness: a task given to New and a task given to an Add before the
\* start were both launched by the start, and the call has returned with
\* every task invoked once.
C12_Witness ==
    /\ Delivered # "none"
    /\ \E t \in UserIds : task[t].via = "new" /\ task[t].how = "start"
    /\ \E t \in UserIds : task[t].via = "add" /\ task[t].how = "start"
    /\ \A t \in Given : invoked[t] = 1

\* C13: an Add made while a task of a Run that launched tasks is still
\* running counts its tasks in ts.running and starts them in the same
\* critical section, before Run has returned; when Run returns, every task
\* so added has been invoked once and has reported; and if the first
\* failure reported came from such a task, Run returns it.
C13_AddedTaskRunsAndReports ==
    [][/\ ( /\ AddStep
            /\ startMode = modeRun
            /\ mode = modeRun
            /\ \E a \in TaskIds : task[a].st = "running" ) =>
              /\ pc' = "wait"
              /\ running' > running
              /\ running' = Cardinality({t \in TaskIds : task'[t].st = "running"})
              /\ \A t \in UserIds :
                     task'[t] # task[t] =>
                         /\ task'[t].st = "running"
                         /\ task'[t].how = "add"
                         /\ invoked'[t] = 1
       /\ (startMode' = modeRun /\ Delivered' # "none") =>
              /\ \A t \in UserIds :
                     task'[t].how = "add" => HasReported(t)' /\ invoked'[t] = 1
              /\ firstFail'.how = "add" => Delivered' = firstFail'.out]_vars

\* C13 witness: the failure of an added task was the first report of all,
\* its adder reporting after it, and Run returned that failure.
C13_Witness ==
    /\ startMode = modeRun
    /\ firstOut.how = "add"
    /\ firstOut.out \in OwnFailures
    /\ Delivered = firstOut.out
    /\ \E a \in UserIds : task[a].how = "start" /\ Reported(a)

\* Every task the caller has given blocks until its context is done and
\* then returns ctx.Err().
AllAwaitCancel == \A t \in Given : task[t].kind = "wait"

\* The call has returned Canceled, exactly one result was sent, ts.mode is
\* modeDone and every task launched before that has reported.
ReturnedCanceled ==
    /\ pc = "returned"
    /\ ret = Canceled
    /\ mode = modeDone
    /\ doneWrites = 1
    /\ \A t \in TaskIds : task[t].how \in {"start", "add"} => Reported(t)

\* C14: if the parent context is done while a Run, Race or Repeat is
\* waiting for its tasks, all of which block until their context is done
\* and return its error, then with every goroutine scheduled eventually all
\* of them have reported, ts.mode is modeDone and the call has returned
\* Canceled, once. (A task of another kind given to a later Add ends the
\* premise.)
C14_CancelledRunReturns ==
    (pc = "wait" /\ parentDone /\ AllAwaitCancel)
        ~> (ReturnedCanceled \/ ~AllAwaitCancel)

\* C14 witness: MaxTasks tasks, one of them added while the call was live,
\* all reported after the parent was cancelled, and the call returned
\* Canceled.
C14_Witness ==
    /\ parentDone
    /\ AllAwaitCancel
    /\ Cardinality(Given) = MaxTasks
    /\ \E t \in Given : task[t].how = "add"
    /\ ReturnedCanceled

\* Every task the caller has given returns nil.
AllSucceed == \A t \in Given : task[t].kind = "ok"

\* C15: a Run that launched at least one task, all of whose tasks return
\* nil, eventually returns nil with every goroutine scheduled (a task of
\* another kind given to a later Add ends the premise); and whenever Run has
\* returned, every task given so far has been invoked exactly once and
\* those launched before the result was sent have reported.
C15_AllSucceedReturnsNil ==
    /\ (startMode = modeRun /\ pc = "wait" /\ AllSucceed)
           ~> (Delivered = nil \/ ~AllSucceed)
    /\ []((startMode = modeRun /\ Delivered # "none") =>
             /\ AllSucceed => Delivered = nil
             /\ \A t \in Given :
                    /\ invoked[t] = 1
                    /\ task[t].how \in {"start", "add"} => HasReported(t))

\* C15 witness: MaxTasks tasks, all there at the start and all returning
\* nil, each invoked once, and Run has returned nil.
C15_Witness ==
    /\ startMode = modeRun
    /\ Delivered = nil
    /\ AllSucceed
    /\ Cardinality(Given) = MaxTasks
    /\ \A t \in Given : task[t].how = "start" /\ invoked[t] = 1 /\ Reported(t)

\* C16: in Race mode the step that takes the first report, whatever its
\* outcome, also cancels the derived context; if other tasks are still
\* running that step sends no result and leaves ts.mode at modeRace; and a
\* Race has sent a result, become modeDone or returned only when every task
\* launched before that has reported.
C16_RaceCancelsFirstFinishesLast ==
    [][/\ (mode = modeRace /\ firstOut = NoReport /\ firstOut' # NoReport) =>
              /\ cancelled'
              /\ err' = firstOut'.out
              /\ running' > 0 =>
                     /\ mode' = modeRace
                     /\ doneWrites' = doneWrites
                     /\ UNCHANGED <<done, pc, ret>>
       /\ ( /\ startMode' = modeRace
            /\ (mode' = modeDone \/ doneWrites' > 0 \/ Delivered' # "none") ) =>
              \A t \in TaskIds :
                  task'[t].how \in {"start", "add"} => HasReported(t)']_vars

\* C16 witness: the first report of a Race was a success, the derived
\* context is cancelled although the parent is not, and Race is still
\* waiting for another task.
C16_Witness ==
    /\ startMode = modeRace
    /\ mode = modeRace
    /\ firstOut.out = nil
    /\ cancelled
    /\ ~parentDone
    /\ pc = "wait"
    /\ doneWrites = 0
    /\ \E t \in TaskIds : task[t].st = "running"

\* C17 as stated: a call returns ErrRunning only while a call that passed
\* the mode check has not returned yet; once a call has returned
\* ErrNoTasks, ts.mode is modeInit and the next call is not refused with
\* ErrRunning.
C17_RunningOnlyWhenLive ==
    [][/\ (CallStep /\ rejected' = ErrRunning) => pc \in {"notasks", "wait"}
       /\ (CallStep /\ pc = "returned" /\ ret = ErrNoTasks) =>
              /\ mode = modeInit
              /\ rejected' # ErrRunning]_vars

\* Some Add ran in this step with ts.mode = modeDone.
LateAddStep == AddStep /\ mode = modeDone

\* C18 as stated: whenever an Add launches tasks in modeDone, the derived
\* context is already done.
C18_LateAddSeesCancelled ==
    [][LateAddStep => CtxDone]_vars

\* C18 amended: an Add in modeDone launches its tasks at once, and the
\* derived context is already done at that moment if the call that passed
\* the mode check has returned, if the mode was Race or Repeat, or if a
\* failure was recorded; otherwise (a Run whose reports were all successes
\* and whose caller has not returned yet) it is not done yet, and it is done
\* from the moment that call returns.
C18_LateAddCancelledOnceReturned ==
    [][/\ LateAddStep =>
              /\ \A t \in UserIds :
                     task'[t] # task[t] =>
                         /\ task'[t].st = "running"
                         /\ task'[t].how = "late"
                         /\ invoked'[t] = 1
              /\ (pc = "returned" \/ err # nil
                    \/ startMode \in {modeRace, modeRepeat}) => CtxDone
              /\ ~CtxDone =>
                     /\ pc \in {"wait", "notasks"}
                     /\ err = nil
                     /\ firstFail = NoReport
       /\ pc' = "returned" => CtxDone']_vars

\* C18 witness: a task launched by an Add in modeDone is running against a
\* context that is not done, the caller of Run not having received the
\* result yet.
C18_Witness ==
    /\ mode = modeDone
    /\ startMode = modeRun
    /\ pc = "wait"
    /\ ~CtxDone
    /\ \E t \in UserIds : task[t].how = "late" /\ task[t].st = "running"

\* Some task reported in this step.
ReportStep == \E t \in TaskIds : task[t].st = "running" /\ task'[t].st # "running"

\* The number of tasks launched, less the number of tasks reporting, in
\* this step.
RunningDelta ==
    Cardinality({t \in TaskIds : task[t].st = "unused" /\ task'[t].st = "running"})
      - Cardinality({t \in TaskIds : task[t].st = "running" /\ task'[t].st = "reported"})

\* C19: in modeDone an Add and a report change ts.running only, by the
\* number of tasks added and by one per report; ts.err, ts.first, ts.mode,
\* ts.done, the derived context and what the caller was or will be given
\* stay as they are, whatever the late task returns.
C19_LateReportsDiscarded ==
    [][(mode = modeDone /\ (AddStep \/ ReportStep)) =>
          /\ running' = running + RunningDelta
          /\ running' # running
          /\ UNCHANGED <<mutex, mode, pending, first, err, cancelled, done,
                         doneWrites, firstOut, firstFail, pc, ret>>]_vars

\* C19 witness: the result was a success, a task added in modeDone has
\* reported a failure, and ts.running is back to 0 with nothing else changed.
C19_Witness ==
    /\ mode = modeDone
    /\ err = nil
    /\ Delivered = nil
    /\ running = 0
    /\ doneWrites = 1
    /\ \E t \in UserIds :
          task[t].how = "late" /\ task[t].kind = "fail" /\ Reported(t)

\* C20: ts.mode changes only from modeInit to modeRun, modeRace or
\* modeRepeat and from one of these to modeDone.
C20_ModeOnlyAdvances ==
    [][mode' # mode =>
          \/ mode = modeInit /\ mode' \in StartModes
          \/ mode \in StartModes /\ mode' = modeDone]_vars

\* C20 witness: a Repeat has gone through to modeDone, a task was added
\* after that and later starts were refused.
C20_Witness ==
    /\ mode = modeDone
    /\ startMode = modeRepeat
    /\ rejected = ErrFinished
    /\ \E t \in UserIds : task[t].how = "late" /\ Reported(t)

\* C21: whenever the call that passed the mode check has returned, the
\* derived context has been cancelled, also when no report cancelled it;
\* the cancel run by the return changes nothing when a report had cancelled
\* already; and a cancelled context stays cancelled.
C21_CancelledOnReturn ==
    [][/\ pc' = "returned" => cancelled'
       /\ (pc # "returned" /\ pc' = "returned" /\ cancelled) =>
              /\ cancelled'
              /\ UNCHANGED <<mutex, mode, pending, running, first, err, task,
                             parentDone, invoked, doneWrites>>
       /\ (cancelled /\ ~StartStep) => cancelled']_vars

\* C21 witness: Run returned nil, no task having failed and the parent not
\* being cancelled, and the derived context is cancelled.
C21_Witness ==
    /\ startMode = modeRun
    /\ Delivered = nil
    /\ firstFail = NoReport
    /\ ~parentDone
    /\ cancelled

\* Task t reports in this step.
Reports(t) == task[t].st = "running" /\ task'[t].st # "running"

C23_RepeatKeptOpen ==
    /\ HasReported(Wait) =>
          /\ CtxDone
          /\ err # nil
          /\ firstFail # NoReport
    /\ (mode = modeRepeat /\ mutex = Free) =>
          /\ running >= 1
          /\ task[Wait].st = "running" \/ err # nil
    /\ ~(mode = modeRepeat /\ running = 0 /\ err = nil)

\* C23 witness: in a Repeat every task the caller gave has reported
\* success, the context is not done, and the synthetic task alone is
\* running.
C23_Witness ==
    /\ mode = modeRepeat
    /\ Given # {}
    /\ \A t \in Given : Reported(t)
    /\ err = nil
    /\ ~CtxDone
    /\ running = 1
    /\ task[Wait].st = "running"

\* The sum of invoked over the task ids 0..n.
RECURSIVE InvokedUpTo(_)
InvokedUpTo(n) == IF n < 0 THEN 0 ELSE invoked[n] + InvokedUpTo(n - 1)

\* The tasks that have been through report's decrement of ts.running.
Decremented == {t \in TaskIds : task[t].st \in {"reported", "sending", "blocked"}}

\* C24: ts.running is the number of tasks Tasks.run was started on (by the
\* call that passed the mode check or by an Add outside modeInit) less the
\* number of them that have reported, which is the number of tasks running;
\* it is never negative, before or after modeDone.
C24_RunningCountsUnreported ==
    /\ running = InvokedUpTo(MaxTasks) - Cardinality(Decremented)
    /\ running = Cardinality({t \in TaskIds : task[t].st = "running"})
    /\ running >= 0
    /\ \A t \in TaskIds : task[t].st = "running" => task[t].how \in {"start", "add", "late"}

\* C24 witness: after modeDone one task added late has reported and another
\* is still running, so ts.running is 1.
C24_Witness ==
    /\ mode = modeDone
    /\ running = 1
    /\ \E t \in UserIds : task[t].how = "late" /\ Reported(t)
    /\ \E t \in UserIds : task[t].how = "late" /\ task[t].st = "running"

\* C25: in Run and Repeat mode a recorded failure is not changed by any
\* later report; in Race mode what the first report recorded is not changed
\* by any later report; nothing changes ts.err in modeDone; the value sent
\* on ts.done is ts.err as it is when ts.running reaches 0; and that is the
\* value the caller returns.
C25_ResultStableOnceWritten ==
    [][/\ (mode \in {modeRun, modeRepeat} /\ err # nil) => err' = err
       /\ (mode = modeRace /\ ~first) => err' = err
       /\ mode = modeDone => err' = err
       /\ doneWrites' # doneWrites =>
              /\ running' = 0
              /\ done' = <<err'>>
       /\ Len(done) > 0 => done = <<err>>
       /\ Delivered' # "none" => Delivered' = err']_vars

\* C25 witness: a Run recorded a task's own failure, a sibling blocked on
\* its context reported Canceled after it, and Run returned the failure
\* recorded first.
C25_Witness ==
    /\ startMode = modeRun
    /\ firstFail.out \in OwnFailures
    /\ Delivered = firstFail.out
    /\ err = firstFail.out
    /\ \E t \in UserIds : task[t].kind = "wait" /\ task[t].how # "late" /\ Reported(t)

\* C26: in Run mode a report of success leaves the derived context as it
\* is; and while the parent context is not done, Run has not returned and
\* no failure has been reported, the derived context is not done.
C26_SuccessDoesNotCancel ==
    [][/\ (mode = modeRun /\ ReportStep /\ firstFail' = NoReport) =>
              UNCHANGED <<cancelled, parentDone>>
       /\ ( /\ (mode' = modeRun \/ startMode' = modeRun)
            /\ pc' # "returned"
            /\ ~parentDone'
            /\ firstFail' = NoReport ) => ~CtxDone']_vars

\* C26 witness: in a Run one task has reported success, another is still
\* running, and the derived context is not done.
C26_Witness ==
    /\ mode = modeRun
    /\ pc = "wait"
    /\ firstOut.out = nil
    /\ firstFail = NoReport
    /\ ~CtxDone
    /\ \E t \in UserIds : Reported(t)
    /\ \E t \in UserIds : task[t].st = "running"

\* C27: a Run, Race or Repeat called in a mode other than modeInit is
\* refused with ErrRunning or ErrFinished and changes nothing: ts.mode,
\* ts.pending, ts.running, ts.first, ts.err and ts.done stay, no task is
\* launched, and the derived context of the call in progress is not
\* cancelled.
C27_RejectedStartChangesNothing ==
    [][/\ (CallStep /\ mode # modeInit) =>
              /\ ~StartStep
              /\ rejected' = IF mode = modeDone THEN ErrFinished ELSE ErrRunning
       /\ (CallStep /\ ~StartStep) =>
              /\ rejected' \in {ErrRunning, ErrFinished}
              /\ mode # modeInit
              /\ UNCHANGED <<mutex, mode, pending, running, first, err,
                             cancelled, parentDone, done, task, invoked,
                             doneWrites, pc, ret>>]_vars

\* C27 witness: a call was refused with ErrRunning while a Run was waiting
\* for a running task, and the derived context is still not done.
C27_Witness ==
    /\ rejected = ErrRunning
    /\ startMode = modeRun
    /\ mode = modeRun
    /\ pc = "wait"
    /\ running > 0
    /\ \E t \in UserIds : task[t].st = "running"
    /\ ~CtxDone

====
